---- MODULE Spec2Model ----
(***************************************************************************)
(* Goal Mentor: the conversation orchestrator of goalmentor_langgraph.py.  *)
(*                                                                         *)
(* One turn is one graph.invoke made by main(): the compiled StateGraph    *)
(* starts at its entry point and runs one node per superstep, following    *)
(* the edges of create_goal_mentor_graph, until it reaches END or the      *)
(* library's recursion limit, where graph.invoke raises and main() takes   *)
(* its except branch.  The language model is an external service: each     *)
(* call either fails or returns one of a few reply texts.                  *)
(***************************************************************************)
EXTENDS Integers, Sequences, FiniteSets, TLC

VARIABLES
    stored,             \* st.session_state.current_state
    completion_status,  \* the dict object current_state["completion_status"] refers to
    state,              \* the graph state of the running turn
    pc,                 \* "idle", the node to run next, "END" or "raised"
    nsteps,             \* supersteps of the running graph.invoke
    llm_calls,          \* llm.invoke calls made in the running turn
    llm_failed,         \* an llm.invoke call of the running turn has failed
    llm_up,             \* the model backend answers during the running turn
    user_input,         \* main()'s user_input of the last turn
    after_new_goal,     \* while a new-goal turn follows a new-goal turn: the session the first one left
    r_mode, r_msg, r_out, \* route_conversation applied on its own: arguments and result
    context,            \* create_conversation_context applied on its own: history and result
    console,            \* goalmentor_withoutui.py: the locals of run_goal_mentor
    session_state       \* main.py: st.session_state

svars == <<stored, completion_status, state, pc, nsteps, llm_calls, llm_failed,
           llm_up, user_input, after_new_goal>>
rvars == <<r_mode, r_msg, r_out>>
ovars == <<context, console, session_state>>
vars == <<svars, rvars, ovars>>

-----------------------------------------------------------------------------
(* Bounds of the model *)

\* a turn is started only while the stored history is at most this long
MaxHistory == 6
MaxJsonSteps == 1

(* graph.invoke is called without "recursion_limit" in its config, so the  *)
(* library's default limit on the supersteps of one call applies (25).     *)
(* The model explores a smaller limit that still lets a turn walk through  *)
(* goal analysis, planning, a four-step plan and completion.               *)
RecursionLimit == 7

-----------------------------------------------------------------------------
(* Text: str.lower, str.strip and the "in" substring test *)

LowerChar(c) ==
    CASE c = "A" -> "a" [] c = "B" -> "b" [] c = "C" -> "c" [] c = "D" -> "d"
      [] c = "E" -> "e" [] c = "F" -> "f" [] c = "G" -> "g" [] c = "H" -> "h"
      [] c = "I" -> "i" [] c = "J" -> "j" [] c = "K" -> "k" [] c = "L" -> "l"
      [] c = "M" -> "m" [] c = "N" -> "n" [] c = "O" -> "o" [] c = "P" -> "p"
      [] c = "Q" -> "q" [] c = "R" -> "r" [] c = "S" -> "s" [] c = "T" -> "t"
      [] c = "U" -> "u" [] c = "V" -> "v" [] c = "W" -> "w" [] c = "X" -> "x"
      [] c = "Y" -> "y" [] c = "Z" -> "z" [] OTHER -> c

RECURSIVE lower(_)
lower(s) ==
    IF Len(s) = 0 THEN ""
    ELSE LowerChar(SubSeq(s, 1, 1)) \o lower(SubSeq(s, 2, Len(s)))

IsSpace(c) == c \in {" ", "\n", "\t"}

RECURSIVE strip(_)
strip(s) ==
    IF Len(s) = 0 THEN s
    ELSE IF IsSpace(SubSeq(s, 1, 1)) THEN strip(SubSeq(s, 2, Len(s)))
    ELSE IF IsSpace(SubSeq(s, Len(s), Len(s))) THEN strip(SubSeq(s, 1, Len(s) - 1))
    ELSE s

\* Python's substring test, p in s
Contains(s, p) ==
    \E i \in 1..(Len(s) - Len(p) + 1) : SubSeq(s, i, i + Len(p) - 1) = p

AnyIn(words, s) == \E w \in words : Contains(s, w)

NewGoalPhrases == {"new goal", "start over", "different goal"}
DoneWords == {"done", "complete", "finished", "next"}
HelpWords == {"help", "stuck", "difficult", "hard", "don't know"}

-----------------------------------------------------------------------------
(* The session state *)

Modes == {"goal_setting", "planning", "execution", "help", "completed"}

Greeting == "Hi! I'm your Goal Mentor. What goal would you like to work on together?"
NewGoalPrompt == "What new goal would you like to work on?"
Hiccup == "I'm having a technical hiccup. Could you try rephrasing that?"

FreshState(response) ==
    [goal |-> "",
     goal_refined |-> FALSE,
     steps |-> << >>,
     current_step_index |-> 0,
     conversation_history |-> << >>,
     mode |-> "goal_setting",
     user_feedback |-> << >>,
     stuck_count |-> 0,
     assistant_response |-> response,
     user_message |-> "",
     next_action |-> ""]

\* a dict with integer keys, as a function on its key set
EmptyDict == [i \in {} |-> 0]

Turn(role, content) == [role |-> role, content |-> content]

-----------------------------------------------------------------------------
(* The language model: a call fails or returns a text *)

LLMFail == [called |-> TRUE, ok |-> FALSE]
Reply(content) == [called |-> TRUE, ok |-> TRUE, content |-> content]
\* a branch that does not reach llm.invoke
NotCalled == [called |-> FALSE, ok |-> FALSE]

\* replies to the goal analysis prompt: with and without a question
AnalysisReplies ==
    {Reply("Great goal, let's get going!"),
     Reply(" What is your timeline? \n")}

\* replies to the step and help prompts
ChatReplies == {Reply("Small steps every day work best. \n")}

-----------------------------------------------------------------------------
(* create_conversation_context: one system message, then the last 6 turns *)

Digit(n) ==
    CASE n = 0 -> "0" [] n = 1 -> "1" [] n = 2 -> "2" [] n = 3 -> "3" [] n = 4 -> "4"
      [] n = 5 -> "5" [] n = 6 -> "6" [] n = 7 -> "7" [] n = 8 -> "8" [] n = 9 -> "9"

RECURSIVE str(_)
str(n) == IF n < 10 THEN Digit(n) ELSE str(n \div 10) \o Digit(n % 10)

\* LastN taking the oldest entries instead of the newest
FirstN(seq, n) ==
    IF Len(seq) <= n THEN seq ELSE SubSeq(seq, 1, n)

LastN(seq, n) ==
    IF Len(seq) <= n THEN seq ELSE SubSeq(seq, Len(seq) - n + 1, Len(seq))

create_conversation_context(s) ==
    LET system_msg ==
            "goal: " \o s.goal \o "; Mode: " \o s.mode
            \o "; Current step: " \o str(s.current_step_index + 1)
            \o " of " \o str(Len(s.steps))
            \o "; Times asked for help: " \o str(s.stuck_count)
        recent == LastN(s.conversation_history, 6)
    IN  <<[type |-> "system", content |-> system_msg]>>
        \o [i \in 1..Len(recent) |->
              [type |-> IF recent[i].role = "user" THEN "human" ELSE "ai",
               content |-> recent[i].content]]

-----------------------------------------------------------------------------
(* goal_analysis_node *)

goal_analysis_node(s, r) ==
    IF r.ok
    THEN LET assistant_msg == strip(r.content)
             needs_refinement == Contains(assistant_msg, "?") /\ ~s.goal_refined
             h0 == s.conversation_history
             h1 == IF s.user_message # "" THEN Append(h0, Turn("user", s.user_message)) ELSE h0
             new_history == Append(h1, Turn("assistant", assistant_msg))
         IN  [s EXCEPT !.assistant_response = assistant_msg,
                       !.conversation_history = new_history,
                       !.mode = IF needs_refinement THEN "goal_setting" ELSE "planning",
                       !.goal_refined = ~needs_refinement]
    ELSE [s EXCEPT !.assistant_response =
                       "I'm having trouble connecting right now. Let's work with your goal: "
                       \o s.goal,
                   !.mode = "planning",
                   !.goal_refined = TRUE]

-----------------------------------------------------------------------------
(* planning_node *)

JsonStep(k) ==
    [title |-> "Week " \o str(k) \o ": Custom focus",
     description |-> "Work on part " \o str(k),
     tips |-> "Keep a log",
     key_actions |-> "Do the exercises"]

JsonSteps(n) == [k \in 1..n |-> JsonStep(k)]

Object(value) == [type |-> "object", value |-> value]

\* what the model returns to the planning prompt: an optional code fence
\* around a body that is a JSON object, a JSON array or no JSON at all.
\* FenceJson stands for the three backquotes followed by json, Fence for
\* the three backquotes alone.
FenceJson == "[fence json]"
Fence == "[fence]"

PlanText(fence, body) == Reply([fence |-> fence, body |-> body])

PlanReplies ==
    {PlanText(f, Object([steps |-> JsonSteps(n), encouragement |-> "You can do it!"])) :
        f \in {"", FenceJson}, n \in 1..MaxJsonSteps}
    \cup {PlanText("", Object([encouragement |-> "Nice goal."])),
          PlanText(Fence, Object([steps |-> JsonSteps(4), encouragement |-> "Go!"])),
          PlanText("", [type |-> "array", value |-> JsonSteps(4)]),
          PlanText("", [type |-> "invalid", value |-> "1. Learn 2. Practise 3. Build 4. Ship"])}

\* lines 164-165: the fence markers are removed when the text starts with
\* the json fence
StripFence(content) ==
    IF content.fence = FenceJson THEN [content EXCEPT !.fence = ""] ELSE content

\* json.loads: raises unless the whole text is JSON
JsonLoads(content) ==
    IF content.fence = "" /\ content.body.type \in {"object", "array"}
    THEN [ok |-> TRUE, data |-> content.body]
    ELSE [ok |-> FALSE]

fallback_steps(goal) ==
    <<[title |-> "Week 1: Foundation Building",
       description |-> "Set up the basics for achieving " \o goal,
       tips |-> "Start small, be consistent, track your progress",
       key_actions |-> "Research, plan, and take the first small step"],
      [title |-> "Week 2: Skill Development",
       description |-> "Focus on building key skills needed for " \o goal,
       tips |-> "Practice daily, seek feedback, don't fear mistakes",
       key_actions |-> "Dedicate time each day to skill-building activities"],
      [title |-> "Week 3: Implementation",
       description |-> "Apply what you've learned toward " \o goal,
       tips |-> "Take action, measure results, adjust as needed",
       key_actions |-> "Execute your plan and track concrete progress"],
      [title |-> "Week 4: Optimization",
       description |-> "Refine your approach and plan next steps for " \o goal,
       tips |-> "Reflect on what worked, optimize your methods",
       key_actions |-> "Fine-tune your approach and set up for continued success"]>>

PlanReady == "\n\nI've created your 4-week plan! Ready to start with Week 1?"
FallbackReady == "I've created a solid 4-week plan for you! Let's start with Week 1."

\* planning_fallback without the assistant turn in the history
planning_fallback_silent(s) ==
    [s EXCEPT !.steps = fallback_steps(s.goal),
              !.assistant_response = FallbackReady,
              !.mode = "execution",
              !.current_step_index = 0]

\* the except branch of planning_node
planning_fallback(s) ==
    [s EXCEPT !.steps = fallback_steps(s.goal),
              !.assistant_response = FallbackReady,
              !.conversation_history = Append(@, Turn("assistant", FallbackReady)),
              !.mode = "execution",
              !.current_step_index = 0]

\* planning_parsed starting the plan at step 1 instead of step 0
planning_parsed_from_one(s, plan_data) ==
    [s EXCEPT !.steps = IF "steps" \in DOMAIN plan_data THEN plan_data.steps ELSE << >>,
              !.mode = "execution",
              !.current_step_index = 1]

\* the try branch of planning_node once json.loads has returned a dict
planning_parsed(s, plan_data) ==
    LET steps == IF "steps" \in DOMAIN plan_data THEN plan_data.steps ELSE << >>
        encouragement ==
            IF "encouragement" \in DOMAIN plan_data
            THEN plan_data.encouragement
            ELSE "Great goal! Let's make it happen."
    IN  [s EXCEPT !.steps = steps,
                  !.assistant_response = encouragement \o PlanReady,
                  !.conversation_history =
                      Append(@, Turn("assistant", encouragement \o PlanReady)),
                  !.mode = "execution",
                  !.current_step_index = 0]

planning_node(s, r) ==
    IF ~r.ok THEN planning_fallback(s)
    ELSE LET parsed == JsonLoads(StripFence(r.content))
         IN  IF parsed.ok /\ parsed.data.type = "object"
             THEN planning_parsed(s, parsed.data.value)
             ELSE planning_fallback(s)

-----------------------------------------------------------------------------
(* execution_node *)

\* steps[i] of the 0-based Python list
At(steps, i) == steps[i + 1]

DictSet(d, k, v) == [i \in DOMAIN d \cup {k} |-> IF i = k THEN v ELSE d[i]]

\* which branch of execution_node a state takes
ExecutionBranch(s) ==
    LET user_msg == lower(s.user_message)
    IN  IF s.current_step_index >= Len(s.steps) THEN "overrun"
        ELSE IF AnyIn(DoneWords, user_msg) THEN "done"
        ELSE IF AnyIn(HelpWords, user_msg) THEN "help"
        ELSE "chat"

\* execution_done with the end of the plan tested by > instead of >=
execution_done_late(s, cs) ==
    LET current_idx == s.current_step_index
        new_idx == current_idx + 1
    IN  [state |-> [s EXCEPT !.current_step_index = new_idx,
                             !.mode = IF new_idx > Len(s.steps)
                                      THEN "completed" ELSE "execution"],
         completion_status |->
             DictSet(cs, current_idx,
                     [completed_at |-> "now", user_feedback |-> lower(s.user_message)])]

\* execution_done moving two steps ahead and staying in mode execution
execution_done_skipping(s, cs) ==
    [state |-> [s EXCEPT !.current_step_index = @ + 2, !.mode = "execution"],
     completion_status |->
         DictSet(cs, s.current_step_index,
                 [completed_at |-> "now", user_feedback |-> lower(s.user_message)])]

\* execution_done handing an unfinished plan back to planning
execution_done_replanning(s, cs) ==
    LET new_idx == s.current_step_index + 1
    IN  [state |-> [s EXCEPT !.current_step_index = new_idx,
                             !.mode = IF new_idx >= Len(s.steps)
                                      THEN "completed" ELSE "planning"],
         completion_status |->
             DictSet(cs, s.current_step_index,
                     [completed_at |-> "now", user_feedback |-> lower(s.user_message)])]

\* lines 241-269: the user completed the current step
execution_done(s, cs) ==
    LET current_idx == s.current_step_index
        steps == s.steps
        current_step == At(steps, current_idx)
        new_status == DictSet(cs, current_idx,
                              [completed_at |-> "now",
                               user_feedback |-> lower(s.user_message)])
        new_idx == current_idx + 1
        congrats_msg ==
            IF new_idx >= Len(steps)
            THEN "Congratulations! You've completed all 4 weeks of your goal plan for '"
                 \o s.goal \o "'! That's amazing dedication."
            ELSE "Awesome! You've completed " \o current_step.title
                 \o "!\n\nReady for " \o At(steps, new_idx).title \o "?\n\n"
                 \o At(steps, new_idx).description
        new_history ==
            Append(Append(s.conversation_history, Turn("user", s.user_message)),
                   Turn("assistant", congrats_msg))
    IN  [state |-> [s EXCEPT !.current_step_index = new_idx,
                             !.assistant_response = congrats_msg,
                             !.conversation_history = new_history,
                             !.mode = IF new_idx >= Len(steps)
                                      THEN "completed" ELSE "execution"],
         completion_status |-> new_status]

\* execution_chat closing the goal after any reply
execution_chat_completing(s, r) ==
    [s EXCEPT !.assistant_response = IF r.ok THEN strip(r.content) ELSE "",
              !.mode = "completed"]

\* lines 279-312: general conversation about the current step
execution_chat(s, r) ==
    LET current_step == At(s.steps, s.current_step_index)
    IN  IF r.ok
        THEN LET assistant_msg == strip(r.content)
             IN  [s EXCEPT !.assistant_response = assistant_msg,
                           !.conversation_history =
                               Append(Append(@, Turn("user", s.user_message)),
                                      Turn("assistant", assistant_msg))]
        ELSE [s EXCEPT !.assistant_response =
                           "I understand you're working on " \o current_step.title
                           \o ". " \o current_step.tips
                           \o " What specific part would you like to focus on?"]

\* execution_node whose help branch does not count the request
execution_node_uncounted(s, cs, r) ==
    LET branch == ExecutionBranch(s)
    IN  CASE branch = "overrun" ->
               [state |-> [s EXCEPT !.mode = "completed"], completion_status |-> cs]
          [] branch = "done" -> execution_done(s, cs)
          [] branch = "help" ->
               [state |-> [s EXCEPT !.mode = "help"], completion_status |-> cs]
          [] OTHER ->
               [state |-> execution_chat(s, r), completion_status |-> cs]

\* execution_node whose guard also writes a closing response
execution_node_guard_speaks(s, cs, r) ==
    LET branch == ExecutionBranch(s)
    IN  CASE branch = "overrun" ->
               [state |-> [s EXCEPT !.mode = "completed",
                                    !.assistant_response = "You are all done!"],
                completion_status |-> cs]
          [] branch = "done" -> execution_done(s, cs)
          [] branch = "help" ->
               [state |-> [s EXCEPT !.mode = "help", !.stuck_count = @ + 1],
                completion_status |-> cs]
          [] OTHER ->
               [state |-> execution_chat(s, r), completion_status |-> cs]

\* the node: the state it returns and the completion_status dict afterwards
\* (the done branch writes into the dict it was given)
execution_node(s, cs, r) ==
    LET branch == ExecutionBranch(s)
    IN  CASE branch = "overrun" ->
               [state |-> [s EXCEPT !.mode = "completed"], completion_status |-> cs]
          [] branch = "done" -> execution_done(s, cs)
          [] branch = "help" ->
               [state |-> [s EXCEPT !.mode = "help", !.stuck_count = @ + 1],
                completion_status |-> cs]
          [] OTHER ->
               [state |-> execution_chat(s, r), completion_status |-> cs]

-----------------------------------------------------------------------------
(* help_node *)

\* help_level without escalation
help_level_flat(stuck_count) == "gentle encouragement and tips"

help_level(stuck_count) ==
    IF stuck_count = 1 THEN "gentle encouragement and tips"
    ELSE IF stuck_count = 2 THEN "more specific, actionable advice"
    ELSE "very detailed, step-by-step breakdown"

\* state["steps"][current_idx] raises IndexError past the end of the plan
help_raises(s) == s.current_step_index >= Len(s.steps)

\* help_node clearing stuck_count once help was given
help_node_forgiving(s, r) ==
    [s EXCEPT !.assistant_response = IF r.ok THEN strip(r.content) ELSE "",
              !.mode = "execution",
              !.stuck_count = 0]

help_node(s, r) ==
    LET current_step == At(s.steps, s.current_step_index)
    IN  IF r.ok
        THEN LET assistant_msg == strip(r.content)
             IN  [s EXCEPT !.assistant_response = assistant_msg,
                           !.conversation_history =
                               Append(Append(@, Turn("user", s.user_message)),
                                      Turn("assistant", assistant_msg)),
                           !.mode = "execution"]
        ELSE [s EXCEPT !.assistant_response =
                           "I can see you're having trouble with " \o current_step.title
                           \o ". That's totally normal!\n1. Break it into smaller 15-minute tasks\n"
                           \o "2. Focus on just one small part today\n"
                           \o "3. Ask yourself: what's the smallest step I could take right now?\n\n"
                           \o current_step.tips \o "\n\nWhat feels most manageable to you?",
                       !.mode = "execution"]

-----------------------------------------------------------------------------
(* completion_node *)

RECURSIVE summary(_, _, _)
\* the loop of lines 388-392 from step i (0-based) on
summary(steps, cs, i) ==
    IF i >= Len(steps) THEN ""
    ELSE (IF i \in DOMAIN cs THEN "[done] " ELSE "[open] ")
         \o At(steps, i).title \o "\n" \o summary(steps, cs, i + 1)

\* completion_node starting the history over with the celebration
completion_node_fresh_history(s, cs) ==
    [s EXCEPT !.assistant_response = "CONGRATULATIONS!",
              !.conversation_history = <<Turn("assistant", "CONGRATULATIONS!")>>]

completion_node(s, cs) ==
    LET celebration_msg ==
            "CONGRATULATIONS! You've successfully completed your 4-week journey toward "
            \o s.goal \o "! Here's what you accomplished:\n"
            \o summary(s.steps, cs, 0)
            \o "What's next? Ready to set a new goal, or do you want to keep building on this one?"
    IN  [s EXCEPT !.assistant_response = celebration_msg,
                  !.conversation_history = Append(@, Turn("assistant", celebration_msg))]

-----------------------------------------------------------------------------
(* route_conversation and the edges of create_goal_mentor_graph *)

\* route_conversation with the mode dispatched before the new-goal check
route_conversation_mode_first(s) ==
    IF s.mode = "goal_setting" THEN "goal_analysis"
    ELSE IF s.mode = "planning" THEN "planning"
    ELSE IF s.mode = "help" THEN "help"
    ELSE IF s.mode = "completed" THEN "completion"
    ELSE IF AnyIn(NewGoalPhrases, lower(s.user_message)) THEN "goal_analysis"
    ELSE "execution"

route_conversation(s) ==
    LET mode == s.mode
        user_msg == lower(s.user_message)
    IN  IF AnyIn(NewGoalPhrases, user_msg) THEN "goal_analysis"
        ELSE IF mode = "goal_setting" THEN "goal_analysis"
        ELSE IF mode = "planning" THEN "planning"
        ELSE IF mode = "help" THEN "help"
        ELSE IF mode = "completed" THEN "completion"
        ELSE "execution"

Nodes == {"goal_analysis", "planning", "execution", "help", "completion"}

\* workflow.set_entry_point
EntryPoint == "goal_analysis"

\* the conditional edge out of goal_analysis (line 446)
after_goal_analysis(s) == IF s.mode = "planning" THEN "planning" ELSE "goal_analysis"

\* the path map of the conditional edge out of execution (lines 454-459);
\* a result that is no key of it raises
ExecutionPathMap == {"execution", "help", "completion", "goal_analysis"}

after_execution(s) ==
    LET key == route_conversation(s)
    IN  IF key \in ExecutionPathMap THEN key ELSE "raised"

-----------------------------------------------------------------------------
(* main(): the turns of a session *)

\* what the user types, and the texts of the two sidebar buttons
UserInputs ==
    {"done, finally!",
     "I'm stuck and need help",
     "How do I begin?",
     "I want to start over with a new goal",
     "Done, let's START OVER"}

IsNewGoalInput(msg) == AnyIn(NewGoalPhrases, lower(msg))
IsDoneInput(msg) == AnyIn(DoneWords, lower(msg))

\* the fields of the session that carry the goal's progress
SessionFields(s, cs) ==
    [goal |-> s.goal,
     goal_refined |-> s.goal_refined,
     steps |-> s.steps,
     current_step_index |-> s.current_step_index,
     mode |-> s.mode,
     conversation_history |-> s.conversation_history,
     stuck_count |-> s.stuck_count,
     completion_status |-> cs]

NoSnapshot == [set |-> FALSE]
Snapshot(s, cs) == [set |-> TRUE, fields |-> SessionFields(s, cs)]

\* the parts of the model that a specification does not exercise stay idle
NoContext == [history |-> << >>, out |-> << >>]
NoConsole == [running |-> FALSE]
NoSessionState == [running |-> FALSE]
OthersIdle == context = NoContext /\ console = NoConsole /\ session_state = NoSessionState

Init ==
    /\ stored = FreshState(Greeting)
    /\ completion_status = EmptyDict
    /\ state = stored
    /\ pc = "idle"
    /\ nsteps = 0
    /\ llm_calls = 0
    /\ llm_failed = FALSE
    /\ llm_up = TRUE
    /\ user_input = ""
    /\ after_new_goal = NoSnapshot
    /\ r_mode = "goal_setting"
    /\ r_msg = ""
    /\ r_out = ""
    /\ OthersIdle

\* lines 592-607: a non-empty input starts graph.invoke on the stored state;
\* the backend is reachable for the whole turn or for none of it
Submit(msg, up) ==
    /\ pc = "idle"
    /\ Len(stored.conversation_history) <= MaxHistory
    /\ msg # ""
    /\ user_input' = msg
    /\ llm_up' = up
    /\ after_new_goal' =
         IF IsNewGoalInput(user_input) /\ IsNewGoalInput(msg)
         THEN Snapshot(stored, completion_status) ELSE NoSnapshot
    /\ state' = [stored EXCEPT !.user_message = msg]
    /\ pc' = EntryPoint
    /\ nsteps' = 0
    /\ llm_calls' = 0
    /\ llm_failed' = FALSE
    /\ UNCHANGED <<stored, completion_status, rvars, ovars>>

\* a superstep may run while the recursion limit is not reached
CanStep == pc \in Nodes /\ nsteps < RecursionLimit

\* the outcomes of one llm.invoke call
LLM(replies) == IF llm_up THEN replies ELSE {LLMFail}

Called(r) ==
    /\ llm_calls' = llm_calls + (IF r.called THEN 1 ELSE 0)
    /\ llm_failed' = (llm_failed \/ (r.called /\ ~r.ok))

GoalAnalysis ==
    /\ pc = "goal_analysis"
    /\ CanStep
    /\ \E r \in LLM(AnalysisReplies) :
         LET s2 == goal_analysis_node(state, r)
         IN  /\ state' = s2
             /\ pc' = after_goal_analysis(s2)
             /\ Called(r)
    /\ nsteps' = nsteps + 1
    /\ UNCHANGED <<stored, completion_status, llm_up, user_input, after_new_goal, rvars, ovars>>

Planning ==
    /\ pc = "planning"
    /\ CanStep
    /\ \E r \in LLM(PlanReplies) :
         /\ state' = planning_node(state, r)
         /\ Called(r)
    /\ pc' = "execution"
    /\ nsteps' = nsteps + 1
    /\ UNCHANGED <<stored, completion_status, llm_up, user_input, after_new_goal, rvars, ovars>>

\* the outcomes of the model call execution_node makes, if it makes one
ExecutionOutcomes(s) ==
    IF ExecutionBranch(s) = "chat" THEN LLM(ChatReplies) ELSE {NotCalled}

Execution ==
    /\ pc = "execution"
    /\ CanStep
    /\ \E r \in ExecutionOutcomes(state) :
         LET out == execution_node(state, completion_status, r)
         IN  /\ state' = out.state
             /\ completion_status' = out.completion_status
             /\ pc' = after_execution(out.state)
             /\ Called(r)
    /\ nsteps' = nsteps + 1
    /\ UNCHANGED <<stored, llm_up, user_input, after_new_goal, rvars, ovars>>

Help ==
    /\ pc = "help"
    /\ CanStep
    /\ IF help_raises(state)
       THEN /\ pc' = "raised"
            /\ UNCHANGED <<state, llm_calls, llm_failed>>
       ELSE /\ \E r \in LLM(ChatReplies) :
                 /\ state' = help_node(state, r)
                 /\ Called(r)
            /\ pc' = "execution"
    /\ nsteps' = nsteps + 1
    /\ UNCHANGED <<stored, completion_status, llm_up, user_input, after_new_goal, rvars, ovars>>

Completion ==
    /\ pc = "completion"
    /\ CanStep
    /\ state' = completion_node(state, completion_status)
    /\ pc' = "END"
    /\ nsteps' = nsteps + 1
    /\ UNCHANGED <<stored, completion_status, llm_calls, llm_failed, llm_up,
                   user_input, after_new_goal, rvars, ovars>>

\* graph.invoke raises when the limit is reached before END
GraphRecursionError ==
    /\ pc \in Nodes
    /\ nsteps >= RecursionLimit
    /\ pc' = "raised"
    /\ UNCHANGED <<stored, completion_status, state, nsteps, llm_calls, llm_failed,
                   llm_up, user_input, after_new_goal, rvars, ovars>>

\* lines 607-610: the result of graph.invoke becomes the stored state
MainReturn ==
    /\ pc = "END"
    /\ stored' = state
    /\ pc' = "idle"
    /\ after_new_goal' = NoSnapshot
    /\ UNCHANGED <<completion_status, state, nsteps, llm_calls, llm_failed, llm_up,
                   user_input, rvars, ovars>>

\* lines 612-616: graph.invoke raised
MainExcept ==
    /\ pc = "raised"
    /\ stored' = [stored EXCEPT !.assistant_response = Hiccup]
    /\ state' = stored'
    /\ pc' = "idle"
    /\ after_new_goal' = NoSnapshot
    /\ UNCHANGED <<completion_status, nsteps, llm_calls, llm_failed, llm_up, user_input,
                   rvars, ovars>>

\* lines 539-555: the New Goal button of the sidebar
NewGoalButton ==
    /\ pc = "idle"
    /\ stored' = FreshState(NewGoalPrompt)
    /\ completion_status' = EmptyDict
    /\ state' = stored'
    /\ user_input' = ""
    /\ UNCHANGED <<pc, nsteps, llm_calls, llm_failed, llm_up, after_new_goal, rvars, ovars>>

Next ==
    \/ \E msg \in UserInputs, up \in BOOLEAN : Submit(msg, up)
    \/ GoalAnalysis
    \/ Planning
    \/ Execution
    \/ Help
    \/ Completion
    \/ GraphRecursionError
    \/ MainReturn
    \/ MainExcept
    \/ NewGoalButton

Spec == Init /\ [][Next]_vars

-----------------------------------------------------------------------------
(* route_conversation on its own, over every mode and a set of inputs *)

RouteModes == Modes \cup {"paused"}

RouteInputs ==
    {"I want to start over with a new goal",
     "NEW GOAL: run a marathon",
     "Let's Start Over",
     "a different goal, please",
     "renew goals at work",
     "newgoal",
     "start  over",
     "done, finally!",
     "I'm stuck and need help",
     "what is next?",
     "How do I begin?",
     "over and out"}

RouteInit ==
    /\ stored = FreshState(Greeting)
    /\ completion_status = EmptyDict
    /\ state = stored
    /\ pc = "idle"
    /\ nsteps = 0
    /\ llm_calls = 0
    /\ llm_failed = FALSE
    /\ llm_up = TRUE
    /\ user_input = ""
    /\ after_new_goal = NoSnapshot
    /\ r_mode \in RouteModes
    /\ r_msg \in RouteInputs
    /\ r_out = ""
    /\ OthersIdle

RouteApply ==
    /\ r_out = ""
    /\ r_out' = route_conversation([mode |-> r_mode, user_message |-> r_msg])
    /\ UNCHANGED <<svars, r_mode, r_msg, ovars>>

RouteNext == RouteApply

RouteSpec == RouteInit /\ [][RouteNext]_vars

-----------------------------------------------------------------------------
(* create_conversation_context on its own, over histories of every length *)
(* up to MaxContextHistory and every assignment of roles                   *)

MaxContextHistory == 10

\* the session and the routing variables at rest
SessionIdle ==
    /\ stored = FreshState(Greeting)
    /\ completion_status = EmptyDict
    /\ state = stored
    /\ pc = "idle"
    /\ nsteps = 0
    /\ llm_calls = 0
    /\ llm_failed = FALSE
    /\ llm_up = TRUE
    /\ user_input = ""
    /\ after_new_goal = NoSnapshot
    /\ r_mode = "goal_setting"
    /\ r_msg = ""
    /\ r_out = ""

\* a history whose i-th turn has the i-th role and says "turn i"
HistoryOf(roles) == [i \in 1..Len(roles) |-> Turn(roles[i], "turn " \o str(i))]

ContextHistories ==
    UNION {{HistoryOf(roles) : roles \in [1..h -> {"user", "assistant"}]} :
              h \in 0..MaxContextHistory}

ContextInit ==
    /\ SessionIdle
    /\ context \in {[history |-> h, out |-> << >>] : h \in ContextHistories}
    /\ console = NoConsole
    /\ session_state = NoSessionState

\* the call reads the state and builds a new list; the state's history is
\* not assigned
ContextApply ==
    /\ context.out = << >>
    /\ LET s == [FreshState(Greeting) EXCEPT !.conversation_history = context.history,
                                             !.mode = "execution"]
       IN  context' = [history |-> s.conversation_history,
                       out |-> create_conversation_context(s)]
    /\ UNCHANGED <<svars, rvars, console, session_state>>

ContextNext == ContextApply

ContextSpec == ContextInit /\ [][ContextNext]_vars

-----------------------------------------------------------------------------
(* The numbered-list plan of main.py and goalmentor_withoutui.py *)

IsDigit(c) == c \in {"0", "1", "2", "3", "4", "5", "6", "7", "8", "9"}

\* str.find: the 1-based position of the first occurrence of p in s, 0 if none
Find(s, p) ==
    IF Contains(s, p)
    THEN CHOOSE i \in 1..(Len(s) - Len(p) + 1) :
             /\ SubSeq(s, i, i + Len(p) - 1) = p
             /\ \A j \in 1..(i - 1) : SubSeq(s, j, j + Len(p) - 1) # p
    ELSE 0

RECURSIVE SplitLines(_)
\* text.split("\n")
SplitLines(text) ==
    LET i == Find(text, "\n")
    IN  IF i = 0 THEN <<text>>
        ELSE <<SubSeq(text, 1, i - 1)>> \o SplitLines(SubSeq(text, i + 1, Len(text)))

\* line.split(". ", 1)[-1]
AfterFirstDot(line) ==
    LET i == Find(line, ". ")
    IN  IF i = 0 THEN line ELSE SubSeq(line, i + 2, Len(line))

RECURSIVE NumberedSteps(_)
\* the loop over the lines: a line counts when, stripped, it is longer than
\* 2, starts with a digit and contains ". "
NumberedSteps(lines) ==
    IF lines = << >> THEN << >>
    ELSE LET line == strip(Head(lines))
             counts == /\ Len(line) > 2
                       /\ IsDigit(SubSeq(line, 1, 1))
                       /\ Contains(line, ". ")
         IN  (IF counts THEN <<strip(AfterFirstDot(line))>> ELSE << >>)
             \o NumberedSteps(Tail(lines))

ParsePlanText(content) == NumberedSteps(SplitLines(strip(content)))

\* what the model returns to the numbered-list prompt
NumberedReplies ==
    {Reply("1. Learn the syntax\n2. Write small scripts\n3. Build a project\n4. Share it"),
     Reply("Here is your plan:\n 1. Read a book \n2) practise\n\n3.\n10. Review. Then rest\n"),
     Reply("I cannot help with that."),
     Reply("")}

NumberedOutcomes == NumberedReplies \cup {LLMFail}

\* main.py: generate_plan returns the parsed steps, [] when the call raised
generate_plan(r) == IF r.ok THEN ParsePlanText(r.content) ELSE << >>

\* goal is None, or a str in a one-element tuple
None == << >>
Some(text) == <<text>>
\* Python's "not goal"
Falsy(goal) == IF goal = None THEN TRUE ELSE goal[1] = ""

-----------------------------------------------------------------------------
(* goalmentor_withoutui.py: run_goal_mentor, one iteration of its loop per *)
(* line the user types                                                     *)

ConsoleInputs ==
    {"exit", "Exit ", "learn Python", "", "yes", "no", "help", "skip",
     "help, no luck", "skip, yes", "maybe later"}

\* lines 91-96: the locals before the loop; branch and llm_calls record what
\* the last iteration did, user_input what it read
ConsoleStart ==
    [running |-> TRUE,
     goal |-> None,
     steps |-> << >>,
     current_step_index |-> 0,
     user_input |-> "",
     branch |-> "start",
     llm_calls |-> 0]

\* lines 106-148: the input becomes the goal and a plan is asked for
console_new_goal(c, text, r) ==
    IF ~r.ok
    THEN [c EXCEPT !.goal = None, !.branch = "plan_error", !.llm_calls = 1]
    ELSE LET steps == ParsePlanText(r.content)
         IN  IF steps = << >>
             THEN [c EXCEPT !.goal = None, !.steps = << >>,
                            !.branch = "no_plan", !.llm_calls = 1]
             ELSE [c EXCEPT !.goal = Some(text), !.steps = steps,
                            !.current_step_index = 0,
                            !.branch = "plan", !.llm_calls = 1]

\* console_advance leaving the loop one step too late
console_advance_late(c, branch) ==
    LET new_idx == c.current_step_index + 1
    IN  [c EXCEPT !.current_step_index = new_idx,
                  !.running = new_idx <= Len(c.steps),
                  !.branch = branch,
                  !.llm_calls = 0]

\* lines 156-167 and 233-243: on to the next step, out of the loop after the last
console_advance(c, branch) ==
    LET new_idx == c.current_step_index + 1
    IN  [c EXCEPT !.current_step_index = new_idx,
                  !.running = new_idx < Len(c.steps),
                  !.branch = branch,
                  !.llm_calls = 0]

\* lines 151-253: progress tracking; the "no" branch calls
\* get_helpful_resources, which calls the model and prints the result
console_track(c, text) ==
    LET user_response == lower(text)
    IN  IF Contains(user_response, "yes") THEN console_advance(c, "yes")
        ELSE IF Contains(user_response, "no")
        THEN [c EXCEPT !.branch = "no", !.llm_calls = 1]
        ELSE IF Contains(user_response, "help")
        THEN [c EXCEPT !.branch = "help", !.llm_calls = 0]
        ELSE IF Contains(user_response, "skip") THEN console_advance(c, "skip")
        ELSE [c EXCEPT !.branch = "invalid", !.llm_calls = 0]

\* one iteration of the while loop on the line typed
run_goal_mentor(c, typed, r) ==
    LET text == strip(typed)
        c1 == [c EXCEPT !.user_input = text]
    IN  IF lower(text) = "exit"
        THEN [c1 EXCEPT !.running = FALSE, !.branch = "exit", !.llm_calls = 0]
        ELSE IF Falsy(c.goal) THEN console_new_goal(c1, text, r)
        ELSE IF c.steps # << >> THEN console_track(c1, text)
        ELSE [c1 EXCEPT !.branch = "none", !.llm_calls = 0]

ConsoleInit ==
    /\ SessionIdle
    /\ context = NoContext
    /\ console = ConsoleStart
    /\ session_state = NoSessionState

\* the model is called for a plan only while there is no goal
ConsoleOutcomes(c, typed) ==
    IF lower(strip(typed)) # "exit" /\ Falsy(c.goal) THEN NumberedOutcomes ELSE {NotCalled}

ConsoleInput ==
    /\ console.running
    /\ \E typed \in ConsoleInputs :
         \E r \in ConsoleOutcomes(console, typed) :
            console' = run_goal_mentor(console, typed, r)
    /\ UNCHANGED <<svars, rvars, context, session_state>>

ConsoleNext == ConsoleInput

ConsoleSpec == ConsoleInit /\ [][ConsoleNext]_vars

-----------------------------------------------------------------------------
(* main.py: the Streamlit script, one run of it per widget event *)

GoalInputs == {"Learn Python", " Run a marathon ", "  "}

\* st.session_state attributes that are set on first use only
NoFlags == [f \in {} |-> FALSE]
SetFlag(flags, f, v) == [g \in DOMAIN flags \cup {f} |-> IF g = f THEN v ELSE flags[g]]
\* hasattr(st.session_state, f) and st.session_state.f
Shown(ss, f) == f \in DOMAIN ss.flags /\ ss.flags[f]

\* lines 27-34; clicked records the widget of the last run
SessionStart ==
    [running |-> TRUE,
     goal |-> None,
     steps |-> << >>,
     current_step_index |-> 0,
     chat_history |-> << >>,
     flags |-> NoFlags,
     clicked |-> ""]

\* the tracking widgets are drawn: lines 209-224
Tracking(ss) ==
    /\ ~Falsy(ss.goal)
    /\ ss.steps # << >>
    /\ ss.current_step_index < Len(ss.steps)

MainPyInit ==
    /\ SessionIdle
    /\ context = NoContext
    /\ console = NoConsole
    /\ session_state = SessionStart

\* lines 160-165
StartNewGoal ==
    /\ session_state' = [session_state EXCEPT !.goal = None,
                                              !.steps = << >>,
                                              !.current_step_index = 0,
                                              !.chat_history = << >>,
                                              !.clicked = "Start New Goal"]
    /\ UNCHANGED <<svars, rvars, context, console>>

\* lines 188-203
GeneratePlan(goal_input, r) ==
    /\ Falsy(session_state.goal)
    /\ session_state' =
         IF strip(goal_input) # ""
         THEN LET steps == generate_plan(r)
              IN  IF steps # << >>
                  THEN [session_state EXCEPT !.goal = Some(strip(goal_input)),
                                             !.steps = steps,
                                             !.current_step_index = 0,
                                             !.clicked = "Generate Implementation Plan"]
                  ELSE [session_state EXCEPT !.goal = Some(strip(goal_input)),
                                             !.clicked = "Generate Implementation Plan"]
         ELSE [session_state EXCEPT !.clicked = "Generate Implementation Plan"]
    /\ UNCHANGED <<svars, rvars, context, console>>

\* lines 216-221
SetNewGoal ==
    /\ ~Falsy(session_state.goal)
    /\ session_state.steps # << >>
    /\ session_state.current_step_index >= Len(session_state.steps)
    /\ session_state' = [session_state EXCEPT !.goal = None,
                                              !.steps = << >>,
                                              !.current_step_index = 0,
                                              !.chat_history = << >>,
                                              !.clicked = "Set New Goal"]
    /\ UNCHANGED <<svars, rvars, context, console>>

\* lines 236-239
MarkAsCompleted ==
    /\ Tracking(session_state)
    /\ session_state' = [session_state EXCEPT !.current_step_index = @ + 1,
                                              !.clicked = "Mark as Completed"]
    /\ UNCHANGED <<svars, rvars, context, console>>

\* lines 242-244
RequestAssistance ==
    /\ Tracking(session_state)
    /\ session_state' = [session_state EXCEPT !.flags = SetFlag(@, "show_help", TRUE),
                                              !.clicked = "Request Assistance"]
    /\ UNCHANGED <<svars, rvars, context, console>>

\* lines 247-249
AdditionalResources ==
    /\ Tracking(session_state)
    /\ session_state' = [session_state EXCEPT !.flags = SetFlag(@, "show_extra_help", TRUE),
                                              !.clicked = "Additional Resources"]
    /\ UNCHANGED <<svars, rvars, context, console>>

\* lines 252-255
SkipToNextPhase ==
    /\ Tracking(session_state)
    /\ session_state' = [session_state EXCEPT !.current_step_index = @ + 1,
                                              !.clicked = "Skip to Next Phase"]
    /\ UNCHANGED <<svars, rvars, context, console>>

\* lines 258-269
CloseAssistancePanel ==
    /\ Tracking(session_state)
    /\ Shown(session_state, "show_help")
    /\ session_state' = [session_state EXCEPT !.flags = SetFlag(@, "show_help", FALSE),
                                              !.clicked = "Close Assistance Panel"]
    /\ UNCHANGED <<svars, rvars, context, console>>

\* lines 272-307
CloseResourcePanel ==
    /\ Tracking(session_state)
    /\ Shown(session_state, "show_extra_help")
    /\ session_state' = [session_state EXCEPT !.flags = SetFlag(@, "show_extra_help", FALSE),
                                              !.clicked = "Close Resource Panel"]
    /\ UNCHANGED <<svars, rvars, context, console>>

MainPyNext ==
    \/ StartNewGoal
    \/ \E goal_input \in GoalInputs, r \in NumberedOutcomes : GeneratePlan(goal_input, r)
    \/ SetNewGoal
    \/ MarkAsCompleted
    \/ RequestAssistance
    \/ AdditionalResources
    \/ SkipToNextPhase
    \/ CloseAssistancePanel
    \/ CloseResourcePanel

MainPySpec == MainPyInit /\ [][MainPyNext]_vars

-----------------------------------------------------------------------------
(* Properties *)

\* the state the session shows: the running graph state during a turn,
\* the stored state between turns
Cur == IF pc \in Nodes \cup {"END"} THEN state ELSE stored

FreshFields == SessionFields(FreshState(""), EmptyDict)

\* C1: on every turn the first handler that runs is the one the routing
\* function selects from the current mode and the input.
C1_FirstHandlerIsRouted ==
    (pc \in Nodes /\ nsteps = 0) => pc = route_conversation(state)

\* C2: every turn reaches END and returns a state: no turn ends by raising
\* to the caller of graph.invoke.
C2_TurnNeverRaises == pc # "raised"

\* the inputs of RouteInputs that contain a new-goal phrase once lower-cased,
\* listed by hand
RouteNewGoalInputs ==
    {"I want to start over with a new goal",
     "NEW GOAL: run a marathon",
     "Let's Start Over",
     "a different goal, please",
     "renew goals at work"}

RouteTable(mode) ==
    CASE mode = "goal_setting" -> "goal_analysis"
      [] mode = "planning" -> "planning"
      [] mode = "help" -> "help"
      [] mode = "completed" -> "completion"
      [] OTHER -> "execution"

\* C3: route_conversation returns goal_analysis whenever the lower-cased
\* message contains a new-goal phrase, whatever the mode; otherwise it
\* dispatches on the mode, with execution for any mode not listed.
C3_RouteConversation ==
    r_out # "" =>
        r_out = IF r_msg \in RouteNewGoalInputs THEN "goal_analysis" ELSE RouteTable(r_mode)

\* a new-goal phrase in capitals overrides mode completed
C3_Witness ==
    r_out = "goal_analysis" /\ r_mode = "completed" /\ r_msg = "NEW GOAL: run a marathon"

\* C4: a turn whose input contains a new-goal phrase ends in the fresh
\* initial session: mode goal_setting, goal not refined, no plan, index 0,
\* stuck_count 0, no completion records, empty history.
C4_NewGoalTurnResets ==
    (pc = "idle" /\ IsNewGoalInput(user_input)) =>
        SessionFields(stored, completion_status) = FreshFields

\* the session a finished turn leaves: the graph's result when it returned,
\* the stored state (but for the response text) when it raised
TurnResult ==
    IF pc = "END" THEN SessionFields(state, completion_status)
    ELSE SessionFields(stored, completion_status)

\* C5: a new-goal turn that follows a new-goal turn leaves the session the
\* first one left, in every field but the response text.
C5_NewGoalTwiceIsIdempotent ==
    (pc \in {"END", "raised"} /\ after_new_goal.set) => TurnResult = after_new_goal.fields

\* C6: within one turn the language model is called at most once.
C6_AtMostOneModelCall == llm_calls <= 1

\* Execution is about to handle a step-done input on step i of its plan
DoneAt(i) ==
    /\ pc = "execution"
    /\ nsteps < RecursionLimit
    /\ state.mode = "execution"
    /\ state.current_step_index = i
    /\ i < Len(state.steps)
    /\ IsDoneInput(state.user_message)

\* C7: in mode execution at step i with i + 1 < len(plan), a turn whose
\* input has a step-done word and no new-goal phrase ends with the index at
\* i + 1, a record for i and for no later step, mode execution and the plan
\* unchanged: Execution handles the input once and the turn is over.
C7_OneDoneInputOneStep ==
    [][\A i \in 0..3 :
          (DoneAt(i) /\ i + 1 < Len(state.steps) /\ ~IsNewGoalInput(state.user_message))
          => /\ pc' \notin Nodes
             /\ state'.current_step_index = i + 1
             /\ i \in DOMAIN completion_status'
             /\ \A j \in DOMAIN completion_status' : j <= i
             /\ state'.mode = "execution"
             /\ state'.steps = state.steps]_vars

C9_IndexNeverDecreases ==
    [][(/\ pc # "raised" /\ pc' # "raised"
        /\ ~(pc = "idle" /\ pc' = "idle")
        /\ ~IsNewGoalInput(user_input'))
       => Cur'.current_step_index >= Cur.current_step_index]_vars

C11_CompletedOnlyAtEndOfPlan ==
    [][/\ (pc \in Nodes /\ state.mode # "completed" /\ state'.mode = "completed")
          => /\ pc = "execution"
             /\ ExecutionBranch(state) \in {"overrun", "done"}
             /\ state'.current_step_index >= Len(state'.steps)
             /\ (ExecutionBranch(state) = "done"
                 => /\ state'.current_step_index = state.current_step_index + 1
                    /\ state'.current_step_index = Len(state'.steps))
             /\ (ExecutionBranch(state) = "overrun"
                 => state'.current_step_index = state.current_step_index)
       /\ (stored.mode # "completed" /\ stored'.mode = "completed")
          => stored'.current_step_index >= Len(stored'.steps)]_vars

\* the guard has closed a plan that was stored without steps
C11_Witness ==
    /\ pc = "completion"
    /\ state.mode = "completed"
    /\ state.steps = << >>
    /\ state.current_step_index = 0
    /\ state.goal_refined

\* C12: in every reachable state, mode planning implies that the plan is
\* empty.
C12_PlanningMeansNoPlan ==
    \A s \in {stored, state} : s.mode = "planning" => s.steps = << >>

\* C13: in every reachable state, goal_refined implies a non-empty goal.
C13_RefinedGoalIsNonEmpty ==
    \A s \in {stored, state} : s.goal_refined => s.goal # ""

\* C14: after Planning has run the plan has exactly four steps, whatever
\* the model call returned.
C14_PlanAlwaysHasFourSteps ==
    [][(pc = "planning" /\ pc' = "execution") => Len(state'.steps) = 4]_vars

\* the four titles of the fallback plan, in order
FallbackTitles ==
    <<"Foundation Building", "Skill Development", "Implementation", "Optimization">>

\* C15: with a model whose calls all fail, Planning entered in mode planning
\* returns the four-step fallback plan, index 0 and mode execution, and
\* appends one assistant turn to the history.
C15_PlanningFallbackOnFailure ==
    [][(pc = "planning" /\ pc' = "execution" /\ ~llm_up /\ state.mode = "planning")
       => /\ Len(state'.steps) = 4
          /\ \A k \in 1..4 : Contains(state'.steps[k].title, FallbackTitles[k])
          /\ state'.current_step_index = 0
          /\ state'.mode = "execution"
          /\ Len(state'.conversation_history) = Len(state.conversation_history) + 1
          /\ SubSeq(state'.conversation_history, 1, Len(state.conversation_history))
               = state.conversation_history
          /\ state'.conversation_history[Len(state'.conversation_history)].role
               = "assistant"]_vars

\* Planning has returned after its model call failed
C15_Witness ==
    /\ pc = "execution"
    /\ nsteps = 2
    /\ ~llm_up
    /\ llm_calls = 2
    /\ state.steps = fallback_steps(state.goal)
    /\ state.assistant_response = FallbackReady

\* C16: once the stored mode is completed, a turn whose input has no
\* new-goal phrase leaves the mode completed and the plan, the index and
\* the completion records as they were.
C16_CompletedIsTerminal ==
    [][(stored.mode = "completed" /\ pc # "idle" /\ ~IsNewGoalInput(user_input))
       => /\ completion_status' = completion_status
          /\ stored'.mode = "completed"
          /\ stored'.steps = stored.steps
          /\ stored'.current_step_index = stored.current_step_index]_vars

\* C17: a completion record for step i is written only in the step that
\* moves current_step_index from i to i + 1, and outside a new-goal reset a
\* record that is present is neither changed nor removed.
C17_RecordsWrittenOnce ==
    [][/\ \A i \in DOMAIN completion_status' :
             (i \notin DOMAIN completion_status
              \/ completion_status'[i] # completion_status[i])
             => /\ pc = "execution"
                /\ state.current_step_index = i
                /\ state'.current_step_index = i + 1
       /\ (~IsNewGoalInput(user_input') /\ ~(pc = "idle" /\ pc' = "idle"))
          => \A i \in DOMAIN completion_status :
                 /\ i \in DOMAIN completion_status'
                 /\ completion_status'[i] = completion_status[i]]_vars

\* C18: stuck_count never decreases from one state to the next, in the
\* running graph and in the stored state; only the new-goal reset of the
\* session sets it to 0.
C18_StuckCountNeverDecreases ==
    [][/\ (pc \in Nodes /\ pc' \in Nodes \cup {"END"})
          => state'.stuck_count >= state.stuck_count
       /\ (pc = "idle" /\ pc' # "idle")
          => state'.stuck_count = stored.stuck_count
       /\ ~(pc = "idle" /\ pc' = "idle")
          => stored'.stuck_count >= stored.stuck_count
       /\ (pc = "idle" /\ pc' = "idle")
          => stored'.stuck_count = 0]_vars

\* the third request for help of one turn has been counted
C18_Witness ==
    /\ pc = "help"
    /\ state.mode = "help"
    /\ state.stuck_count = 3

\* C19: in every reachable state with mode execution,
\* 0 <= current_step_index <= len(plan).
C19_IndexWithinPlan ==
    \A s \in {stored, state} :
        s.mode = "execution"
        => (0 <= s.current_step_index /\ s.current_step_index <= Len(s.steps))

\* three steps of a four-step plan are done and the fourth is open
C19_Witness ==
    /\ pc = "execution"
    /\ state.mode = "execution"
    /\ Len(state.steps) = 4
    /\ state.current_step_index = 3
    /\ DOMAIN completion_status = {0, 1, 2}

\* C20: when the model call of GoalAnalysis, of the free-form branch of
\* Execution or of Help fails, the handler appends the user's message and
\* the fallback response to the history as a user turn and an assistant
\* turn.
C20_FailedCallStillAdvancesHistory ==
    [][(/\ pc \in {"goal_analysis", "execution", "help"}
        /\ llm_calls' = llm_calls + 1
        /\ ~llm_up)
       => state'.conversation_history =
              Append(Append(state.conversation_history,
                            Turn("user", state.user_message)),
                     Turn("assistant", state'.assistant_response))]_vars

IsPrefix(h1, h2) == Len(h1) <= Len(h2) /\ SubSeq(h2, 1, Len(h1)) = h1

\* C21: the history is append-only within a goal: after every handler the
\* new history has the previous one as a prefix, and so has the stored
\* history after every turn; only the reset for a new goal empties it.
C21_HistoryIsAppendOnly ==
    [][/\ (pc \in Nodes /\ pc' \in Nodes \cup {"END"})
          => IsPrefix(state.conversation_history, state'.conversation_history)
       /\ (pc = "idle" /\ pc' # "idle")
          => state'.conversation_history = stored.conversation_history
       /\ ~(pc = "idle" /\ pc' = "idle")
          => IsPrefix(stored.conversation_history, stored'.conversation_history)]_vars

\* Completion has appended its celebration to the history of a second turn
C21_Witness ==
    /\ pc = "END"
    /\ stored.conversation_history # << >>
    /\ Len(state.conversation_history) >= Len(stored.conversation_history) + 4
    /\ state.conversation_history[Len(state.conversation_history)].content
         = state.assistant_response

\* C23: GoalAnalysis with a reply that has a question mark while the goal is
\* not refined leaves mode goal_setting and goal_refined false, and the turn
\* ends there; in every other case, a failed call included, it sets
\* goal_refined and mode planning.
C23_GoalAnalysisWaitsForAnswer ==
    [][(pc = "goal_analysis" /\ nsteps' = nsteps + 1)
       => IF llm_up /\ Contains(state'.assistant_response, "?") /\ ~state.goal_refined
          THEN /\ state'.mode = "goal_setting"
               /\ ~state'.goal_refined
               /\ pc' = "END"
          ELSE /\ state'.mode = "planning"
               /\ state'.goal_refined
               /\ pc' = "planning"]_vars

IsHelpInput(msg) == AnyIn(HelpWords, lower(msg))

\* C24: in mode execution below the end of the plan, an input with a help
\* word and no step-done word makes Execution set mode help and add 1 to
\* stuck_count, change nothing else and call no model; over the whole turn
\* stuck_count rises by exactly 1.
C24_HelpRequestCountsOnce ==
    /\ [][(/\ pc = "execution" /\ nsteps' = nsteps + 1
           /\ state.mode = "execution"
           /\ state.current_step_index < Len(state.steps)
           /\ IsHelpInput(state.user_message) /\ ~IsDoneInput(state.user_message))
          => /\ state' = [state EXCEPT !.mode = "help", !.stuck_count = @ + 1]
             /\ completion_status' = completion_status
             /\ llm_calls' = llm_calls]_vars
    /\ []((/\ pc # "idle"
           /\ IsHelpInput(user_input) /\ ~IsDoneInput(user_input))
          => state.stuck_count <= stored.stuck_count + 1)

HelpTier(stuck_count) ==
    CASE stuck_count = 1 -> "gentle encouragement and tips"
      [] stuck_count = 2 -> "more specific, actionable advice"
      [] OTHER -> "very detailed, step-by-step breakdown"

\* C25: Help returns mode execution whether its model call succeeds or
\* fails, leaves plan, index, stuck_count and completion records as they
\* were, and picks the help tier from stuck_count: 1 gentle, 2 specific,
\* 3 or more detailed.
C25_HelpReturnsToExecution ==
    [][(pc = "help" /\ nsteps' = nsteps + 1)
       => /\ pc' = "execution"
          /\ state'.mode = "execution"
          /\ state'.steps = state.steps
          /\ state'.current_step_index = state.current_step_index
          /\ state'.stuck_count = state.stuck_count
          /\ completion_status' = completion_status
          /\ state.stuck_count >= 1
          /\ help_level(state.stuck_count) = HelpTier(state.stuck_count)
          /\ (state.stuck_count = 2
              => help_level(state.stuck_count) # help_level(1)
                 /\ help_level(state.stuck_count) # help_level(3))]_vars

\* Help has returned from a failed model call on the second request
C25_Witness ==
    /\ pc = "execution"
    /\ ~llm_up
    /\ state.mode = "execution"
    /\ state.stuck_count = 2
    /\ nsteps = 6
    /\ Contains(state.assistant_response, "I can see you're having trouble with")

\* C28: Execution entered with current_step_index >= len(plan) sets mode
\* completed and changes nothing else, and makes no model call.
C28_GuardOnlySetsCompleted ==
    [][(/\ pc = "execution" /\ nsteps' = nsteps + 1
        /\ state.current_step_index >= Len(state.steps))
       => /\ state' = [state EXCEPT !.mode = "completed"]
          /\ state'.mode = "completed"
          /\ completion_status' = completion_status
          /\ llm_calls' = llm_calls
          /\ llm_failed' = llm_failed]_vars

\* the guard has run on a plan without steps and kept Planning's response
C28_Witness ==
    /\ pc = "completion"
    /\ nsteps = 3
    /\ llm_calls = 2
    /\ state.steps = << >>
    /\ state.mode = "completed"
    /\ Contains(state.assistant_response, PlanReady)
    /\ completion_status = EmptyDict

\* C29: no handler modifies the session it was started from, and a turn
\* that raises leaves the stored state and the completion records as they
\* were but for assistant_response.
C29_HandlersLeaveSessionUntouched ==
    [][/\ pc \in Nodes => (stored' = stored /\ completion_status' = completion_status)
       /\ pc = "raised"
          => /\ SessionFields(stored', completion_status')
                 = SessionFields(stored, completion_status)
             /\ stored'.assistant_response = Hiccup]_vars

Min(a, b) == IF a <= b THEN a ELSE b

\* C22: for a history of any length h, create_conversation_context returns
\* one system message followed by the last min(6, h) entries of the history
\* in their order, user turns as human messages and assistant turns as ai
\* messages, and the history is as it was.
C22_ContextIsLastSixTurns ==
    context.out # << >> =>
        LET h == Len(context.history)
            n == Min(6, h)
        IN  /\ Len(context.out) = n + 1
            /\ context.out[1].type = "system"
            /\ \A i \in 1..n :
                 /\ context.out[i + 1].content = context.history[h - n + i].content
                 /\ context.out[i + 1].type =
                      (IF context.history[h - n + i].role = "user" THEN "human" ELSE "ai")
            /\ context.history \in ContextHistories
            /\ \A i \in 1..h : context.history[i].content = "turn " \o str(i)

\* a history of ten turns gives the system message and turns 5 to 10
C22_Witness ==
    /\ Len(context.history) = 10
    /\ Len(context.out) = 7
    /\ context.out[2].content = "turn 5"
    /\ context.out[7].content = "turn 10"
    /\ context.out[2].type = "human"
    /\ context.out[7].type = "ai"

\* the intent of a console input by the order help, skip, yes, no, other
ConsoleIntent(text) ==
    LET user_response == lower(text)
    IN  IF Contains(user_response, "help") THEN "help"
        ELSE IF Contains(user_response, "skip") THEN "skip"
        ELSE IF Contains(user_response, "yes") THEN "yes"
        ELSE IF Contains(user_response, "no") THEN "no"
        ELSE "invalid"

\* inputs with a step-done word and a help word
DoneAndHelpInputs == {"I'm done, but it was hard", "Stuck no more: finished!"}

\* C26: an input that matches several intents is acted on by the order
\* new goal, step done, needs help, skip, yes/no, other: execution_node
\* takes a step-done word before a help word, and the console loop takes
\* "help" before "no" and "skip" before "yes".
C26_IntentPrecedence ==
    /\ \A msg \in DoneAndHelpInputs :
         ExecutionBranch([user_message |-> msg,
                          steps |-> fallback_steps(""),
                          current_step_index |-> 0]) = "done"
    /\ (console.running /\ console.branch \in {"yes", "no", "help", "skip", "invalid"})
       => console.branch = ConsoleIntent(console.user_input)

ResetButtons == {"Start New Goal", "Set New Goal"}

\* C27: after a reset button of main.py every field of the session has its
\* initial value: no goal, no plan, index 0, no chat history, and neither
\* help panel switched on.
C27_ResetRestoresInitialSession ==
    (session_state.running /\ session_state.clicked \in ResetButtons)
    => /\ session_state.goal = None
       /\ session_state.steps = << >>
       /\ session_state.current_step_index = 0
       /\ session_state.chat_history = << >>
       /\ ~Shown(session_state, "show_help")
       /\ ~Shown(session_state, "show_extra_help")

\* C30: whenever the console loop or main.py waits for the user with a goal
\* set, a non-empty plan is stored.
C30_GoalImpliesPlan ==
    /\ (console.running /\ ~Falsy(console.goal)) => console.steps # << >>
    /\ (session_state.running /\ ~Falsy(session_state.goal))
       => session_state.steps # << >>

\* C31: Help is only entered with current_step_index < len(plan) and
\* stuck_count >= 1, in mode help: its lookup of the current step is in
\* range and its tier selection never sees stuck_count 0.
C31_HelpEnteredInsidePlan ==
    pc = "help"
    => /\ state.mode = "help"
       /\ 0 <= state.current_step_index
       /\ state.current_step_index < Len(state.steps)
       /\ state.stuck_count >= 1
       /\ ~help_raises(state)

\* the first request for help on the only step of a one-step plan
C31_Witness ==
    /\ pc = "help"
    /\ Len(state.steps) = 1
    /\ state.current_step_index = 0
    /\ state.stuck_count = 1
    /\ nsteps = 3

\* C32: the state that leaves Execution has mode execution, help or
\* completed, so route_conversation on the edge after Execution returns a
\* key of the edge's path map, never planning, and the graph goes there.
C32_EdgeAfterExecutionIsMapped ==
    [][(pc = "execution" /\ nsteps' = nsteps + 1)
       => /\ state'.mode \in {"execution", "help", "completed"}
          /\ route_conversation(state') \in ExecutionPathMap
          /\ route_conversation(state') # "planning"
          /\ pc' = route_conversation(state')]_vars

\* the edge has sent a finished plan back to goal_analysis on a new-goal phrase
C32_Witness ==
    /\ pc = "goal_analysis"
    /\ nsteps >= 3
    /\ state.mode = "completed"
    /\ state.current_step_index = Len(state.steps)
    /\ IsNewGoalInput(state.user_message)

TrackingBranches == {"yes", "no", "help", "skip", "invalid"}

\* C33: in the console loop a tracking command is processed only with
\* 0 <= current_step_index < len(steps); yes and skip add 1 to the index,
\* no, help and unrecognised input leave it; the loop ends exactly when the
\* index reaches len(steps) or the input is "exit".
C33_ConsoleIndexInsidePlan ==
    [][/\ console'.branch \in TrackingBranches
          => /\ ~Falsy(console.goal)
             /\ 0 <= console.current_step_index
             /\ console.current_step_index < Len(console.steps)
             /\ console'.steps = console.steps
             /\ console'.goal = console.goal
             /\ (console'.branch \in {"yes", "skip"}
                 => console'.current_step_index = console.current_step_index + 1)
             /\ (console'.branch \in {"no", "help", "invalid"}
                 => console'.current_step_index = console.current_step_index)
             /\ (console'.running
                 <=> console'.current_step_index < Len(console'.steps))
       /\ console'.branch \notin TrackingBranches
          => (console'.running <=> lower(console'.user_input) # "exit")
       /\ console.running]_vars

\* the second step of a two-step plan was skipped and the loop has ended
C33_Witness ==
    /\ ~console.running
    /\ console.branch = "skip"
    /\ Len(console.steps) = 2
    /\ console.current_step_index = 2

====
